---- MODULE Spec2Model ----
(***************************************************************************)
(* Customer recommendation engine: the three revisions of the pipeline     *)
(*   v64  Agentic_workflow_v6.4.py  CLI, LangGraph, selection+aggregation  *)
(*   v70  Agentic_workflow_v7.0.py  FastAPI service, plain functions       *)
(*   v71  Agentic_workflow_v7.1.py  FastAPI service, LangGraph             *)
(* Scores are similarity * 100 (0.7 is 70).  A vector is a sequence of     *)
(* integers; a mean is kept exactly as a numerator/denominator pair.       *)
(***************************************************************************)
EXTENDS Integers, Sequences, FiniteSets, TLC

\* ---------------------------------------------------------------- bounds
\* most interest records one customer has in the interest store
MaxEntries == 2
\* most advertisements the query of the selector specification returns
MaxAds == 7
\* most interest records of the customer of the aggregator specification
MaxAggEntries == 3
\* most interest records of each customer of the concurrent specification
MaxConcurrentEntries == 1

\* ------------------------------------------------------ program constants
SIMILARITY_THRESHOLD == 70
DEFAULT_AD_URL == "https://www.youtube.com/watch?v=default_ad&autoplay=1&mute=1"
DEFAULT_PRODUCT == "Generic Product"
DEFAULT_VIDEO_URL == "https://www.youtube.com/watch?v=default_video&autoplay=1&mute=1"
AUTOPLAY_SUFFIX == "&autoplay=1&mute=1"
\* limit=10 of every nearest-neighbour query
QUERY_LIMIT == 10
\* len(top_recommendations) < 5
SHORTLIST_SIZE == 5
\* vector_idx of the candidates of the aggregated vector
AGG_VECTOR_IDX == -1
\* dummy_facial_recognition()
FACE_ID == "003dL000008HU8rQAG"

\* ------------------------------------------------------------ value sets
Variants == {"v64", "v70", "v71"}
Requests == {1, 2}
UserIds == {FACE_ID, "u2"}
Products == {"p1", "p2"}
Links == {"", "https://y/a?x=1", "https://y/b?x=1"}
Scores == {65, 70, 85}
Vectors == {<<>>, <<2, 4>>}
InterestNames == {"i1"}

Min(a, b) == IF a < b THEN a ELSE b

\* the documents an advertisement index can hold: {product, video_link}
AdDocs == [product : Products, video_link : Links]
\* the records an interest store can hold for one customer
Entries == [InterestName : InterestNames, vector : Vectors]

RECURSIVE SeqsUpTo(_, _)
SeqsUpTo(S, n) ==
    IF n = 0 THEN {<<>>}
    ELSE LET shorter == SeqsUpTo(S, n - 1)
         IN shorter \cup {Append(s, x) : s \in {t \in shorter : Len(t) = n - 1}, x \in S}

Range(s) == {s[i] : i \in 1..Len(s)}


\* ------------------------------------------------------- pure functions
\* the shape {url, product, score} handed to callers
Recommendation(rec) == [url |-> rec.url, product |-> rec.product, score |-> rec.score]

\* mutant: the suffix appended whether or not there is a link
PlaybackUrl_Always(video_link) == video_link \o AUTOPLAY_SUFFIX

\* ad.get("video_link", "") + "&autoplay=1&mute=1" if ad.get("video_link") else ""
PlaybackUrl(video_link) ==
    IF video_link # "" THEN video_link \o AUTOPLAY_SUFFIX ELSE ""

\* mutant: the per-query duplicate check left out
SkipDuplicate_Never(product, seen_products) == FALSE

\* `if product in seen_products: continue` of the per-query loop
SkipDuplicate(product, seen_products) == product \in seen_products

\* the per-query loop `for ad in top_ads`: the candidates one query contributes
RECURSIVE CollectAds(_, _, _, _)
CollectAds(ads, vector_idx, seen_products, vector_recommendations) ==
    IF ads = <<>> THEN vector_recommendations
    ELSE LET ad == Head(ads)
             ad_url == PlaybackUrl(ad.video_link)
         IN IF SkipDuplicate(ad.product, seen_products)
            THEN CollectAds(Tail(ads), vector_idx, seen_products, vector_recommendations)
            ELSE IF ad_url # ""
            THEN CollectAds(Tail(ads), vector_idx, seen_products \cup {ad.product},
                     Append(vector_recommendations,
                            [url |-> ad_url, product |-> ad.product,
                             score |-> ad.similarity, vector_idx |-> vector_idx]))
            ELSE CollectAds(Tail(ads), vector_idx, seen_products, vector_recommendations)

\* mutant: candidates tagged with the 1-based number of the vector
VectorRecommendations_OneBased(ads, vector_idx) ==
    CollectAds(ads, vector_idx + 1, {}, <<>>)

\* the candidates of one query, tagged with the loop index of its vector
VectorRecommendations(ads, vector_idx) == CollectAds(ads, vector_idx, {}, <<>>)

\* mutant: the tie-break key with the wrong sign, (score, vector_idx)
KeyGreater_LaterVectorWins(a, b, by_vector) ==
    \/ a.score > b.score
    \/ by_vector /\ a.score = b.score /\ a.vector_idx > b.vector_idx

\* sort keys: v6.4 key=score; v7.x key=(score, -vector_idx); both reverse=True
KeyGreater(a, b, by_vector) ==
    \/ a.score > b.score
    \/ by_vector /\ a.score = b.score /\ (0 - a.vector_idx) > (0 - b.vector_idx)

\* mutant: a sort that reverses the order of equal keys
RECURSIVE InsertDesc_Unstable(_, _, _)
InsertDesc_Unstable(x, sorted, by_vector) ==
    IF sorted = <<>> THEN <<x>>
    ELSE IF ~KeyGreater(Head(sorted), x, by_vector) THEN <<x>> \o sorted
    ELSE <<Head(sorted)>> \o InsertDesc_Unstable(x, Tail(sorted), by_vector)

\* list.sort is stable, also under reverse=True: equal keys keep their order
RECURSIVE InsertDesc(_, _, _)
InsertDesc(x, sorted, by_vector) ==
    IF sorted = <<>> THEN <<x>>
    ELSE IF KeyGreater(x, Head(sorted), by_vector) THEN <<x>> \o sorted
    ELSE <<Head(sorted)>> \o InsertDesc(x, Tail(sorted), by_vector)

RECURSIVE SortInto(_, _, _)
SortInto(recs, sorted, by_vector) ==
    IF recs = <<>> THEN sorted
    ELSE SortInto(Tail(recs), InsertDesc(Head(recs), sorted, by_vector), by_vector)

\* mutant: the pool is deduplicated in the order it was collected
SortDesc_Unsorted(recs, by_vector) == recs

SortDesc(recs, by_vector) == SortInto(recs, <<>>, by_vector)

\* the key each variant sorts the pool by
SortsByVector(v) == v # "v64"

\* mutant: the cross-vector duplicate check left out
SkipSeenProduct_Never(product, seen_products) == FALSE

\* `if product in seen_products: continue` of the cross-vector loop
SkipSeenProduct(product, seen_products) == product \in seen_products

RECURSIVE DedupLoop(_, _, _)
DedupLoop(recs, seen_products, deduplicated) ==
    IF recs = <<>> THEN deduplicated
    ELSE LET rec == Head(recs)
         IN IF SkipSeenProduct(rec.product, seen_products)
            THEN DedupLoop(Tail(recs), seen_products, deduplicated)
            ELSE DedupLoop(Tail(recs), seen_products \cup {rec.product},
                           Append(deduplicated, rec))

\* sort the pool, keep the first candidate of every product; v6.4 sorts the
\* deduplicated list once more by score
Deduplicate(recs, v) ==
    LET deduplicated == DedupLoop(SortDesc(recs, SortsByVector(v)), {}, <<>>)
    IN IF v = "v64" THEN SortDesc(deduplicated, FALSE) ELSE deduplicated

\* mutant: the length test off by one (`<=` for `<`)
TakesShortlistEntry_OneMore(url, seen_urls, top_recommendations) ==
    url \notin seen_urls /\ Len(top_recommendations) <= SHORTLIST_SIZE

\* `rec["url"] not in seen_urls and len(top_recommendations) < 5`
TakesShortlistEntry(url, seen_urls, top_recommendations) ==
    url \notin seen_urls /\ Len(top_recommendations) < SHORTLIST_SIZE

RECURSIVE ShortlistLoop(_, _, _)
ShortlistLoop(recs, seen_urls, top_recommendations) ==
    IF recs = <<>> THEN top_recommendations
    ELSE LET rec == Head(recs)
         IN IF TakesShortlistEntry(rec.url, seen_urls, top_recommendations)
            THEN ShortlistLoop(Tail(recs), seen_urls \cup {rec.url},
                               Append(top_recommendations, Recommendation(rec)))
            ELSE ShortlistLoop(Tail(recs), seen_urls, top_recommendations)

\* mutant: the shortlist built from the rest of the list, without the top match
TopRecommendations_WithoutTopMatch(deduplicated) ==
    ShortlistLoop(Tail(deduplicated), {}, <<>>)

\* the selection shortlist: the top match first, then the rest of the list
TopRecommendations(deduplicated) ==
    ShortlistLoop(Tail(deduplicated), {Head(deduplicated).url},
                  <<Recommendation(Head(deduplicated))>>)

\* the aggregation shortlist of v6.4 starts from the empty list
TopRecommendationsAgg(agg_recs) == ShortlistLoop(agg_recs, {}, <<>>)

RECURSIVE SumColumn(_, _)
SumColumn(vectors, i) ==
    IF vectors = <<>> THEN 0 ELSE Head(vectors)[i] + SumColumn(Tail(vectors), i)

\* mutant: the column sums, not divided by the number of vectors
aggregate_vectors_Sum(vectors) ==
    IF vectors = <<>> THEN <<>>
    ELSE IF \E j \in 1..Len(vectors) : Len(vectors[j]) # Len(vectors[1]) THEN <<>>
    ELSE [i \in 1..Len(vectors[1]) |-> [num |-> SumColumn(vectors, i), den |-> 1]]

\* np.mean(np.array(vectors), axis=0).tolist(); [] for no vectors and on any error
aggregate_vectors(vectors) ==
    IF vectors = <<>> THEN <<>>
    ELSE IF \E j \in 1..Len(vectors) : Len(vectors[j]) # Len(vectors[1]) THEN <<>>
    ELSE [i \in 1..Len(vectors[1]) |->
             [num |-> SumColumn(vectors, i), den |-> Len(vectors)]]

\* mutant: the threshold excluded (`>` for `>=`)
MeetsThreshold_Strict(score) == score > SIMILARITY_THRESHOLD

\* `state["similarity_score"] >= SIMILARITY_THRESHOLD`
MeetsThreshold(score) == score >= SIMILARITY_THRESHOLD

\* `if entry.get("$vector", [])`: the record carries a non-empty vector
HasVector(entry) == entry.vector # <<>>

\* [entry.get("$vector", []) ... for entry in entries if entry.get("$vector", [])]
UserVectors(entries) ==
    LET kept == SelectSeq(entries, HasVector)
    IN [i \in 1..Len(kept) |-> kept[i].vector]

\* [(vector, InterestName, InterestDescription) for entry in entries if vector]
UserVectorsWithInterests(entries) == SelectSeq(entries, HasVector)

\* {"InterestName": ", ".join(set(...)), ...}: the set of the names that are joined
UserInterests(entries) == {entries[i].InterestName : i \in 1..Len(entries)}


\* ------------------------------------------------------------------ state
VARIABLES
    variant,                        \* which revision runs
    userinterests_collection,       \* interest store: customer -> records
    advertisements_collection,      \* advertisement index: set of documents
    pc,                             \* per request: position in the pipeline
    user_id,                        \* per request: the identifier asked for
    state,                          \* per request: the WorkflowState
    idx,                            \* per request: loop index of the collector
    top_ads,                        \* per request: result of the last query
    all_recommendations,            \* per request: the candidate pool
    deduplicated_recommendations,   \* per request: pool after product dedup
    top_recommendations,            \* per request: shortlist of the selection
    agg_recommendations,            \* per request: candidates of the aggregate
    lookups,                        \* per request: interest-store reads and how they ended
    queries,                        \* per request: nearest-neighbour queries issued
    trace,                          \* per request: stages executed, in order
    response                        \* per request: what the caller receives

vars == <<variant, userinterests_collection, advertisements_collection, pc, user_id,
          state, idx, top_ads, all_recommendations, deduplicated_recommendations,
          top_recommendations, agg_recommendations, lookups, queries, trace, response>>

collections == <<variant, userinterests_collection, advertisements_collection, user_id>>
locals == <<idx, top_ads, all_recommendations, deduplicated_recommendations,
            top_recommendations, agg_recommendations>>

NoAd == [url |-> "", product |-> "", score |-> 0]

\* the state main() / get_recommendations() hands to graph.invoke
InitialState(customer_id) ==
    [customer_id |-> customer_id, user_interests |-> {}, user_vectors |-> <<>>,
     user_vectors_with_interests |-> <<>>, user_vector_agg |-> <<>>,
     ad_url |-> "", ad_url_agg |-> "", product |-> "", product_agg |-> "",
     similarity_score |-> 0, similarity_score_agg |-> 0,
     play_ad |-> FALSE, play_ad_agg |-> FALSE,
     top_recommendations |-> <<>>, top_recommendations_agg |-> <<>>]

NoResponse ==
    [kind |-> "none", status |-> 0, customer_id |-> "", top_ad |-> NoAd,
     top_recommendations |-> <<>>, opened |-> <<>>]

\* raise HTTPException(status_code=...)
HttpError(status) == [NoResponse EXCEPT !.kind = "http", !.status = status]

\* the status an exception that is no HTTPException leaves the handler with
InternalError == HttpError(500)

\* ranked results of one nearest-neighbour query: distinct documents of the
\* index, at most limit=10 of them, by non-increasing similarity
ScoredAds(collection) ==
    {[product |-> d.product, video_link |-> d.video_link, similarity |-> sc] :
        d \in collection, sc \in Scores}

Ranked(ads) ==
    /\ \A i, j \in 1..Len(ads) :
          i < j => /\ ads[i].similarity >= ads[j].similarity
                   /\ ~(ads[i].product = ads[j].product /\ ads[i].video_link = ads[j].video_link)

QueryResults(collection) ==
    {ads \in SeqsUpTo(ScoredAds(collection), Min(QUERY_LIMIT, Cardinality(collection))) :
        Ranked(ads)}

Set(f, r, v) == [f EXCEPT ![r] = v]

ClearLocals(r) ==
    /\ idx' = Set(idx, r, 0)
    /\ top_ads' = Set(top_ads, r, <<>>)
    /\ all_recommendations' = Set(all_recommendations, r, <<>>)
    /\ deduplicated_recommendations' = Set(deduplicated_recommendations, r, <<>>)
    /\ top_recommendations' = Set(top_recommendations, r, <<>>)
    /\ agg_recommendations' = Set(agg_recommendations, r, <<>>)

Stage(r, name) == trace' = Set(trace, r, Append(trace[r], name))

Finish(r, resp) ==
    /\ response' = Set(response, r, resp)
    /\ pc' = Set(pc, r, "done")

\* ------------------------------------------------------------------- Init
Stores ==
    {[u \in UserIds |-> IF u = FACE_ID THEN entries ELSE <<>>] :
        entries \in SeqsUpTo(Entries, MaxEntries)}

\* the advertisement indexes considered: every index of at most two documents
Indexes == {c \in SUBSET AdDocs : \E d1, d2 \in AdDocs : c \subseteq {d1, d2}}

Init ==
    /\ variant \in Variants
    /\ userinterests_collection \in Stores
    /\ advertisements_collection \in Indexes
    /\ user_id = [r \in Requests |-> IF r = 1 THEN FACE_ID ELSE "u2"]
    /\ pc = [r \in Requests |-> IF r = 1 THEN "fetch" ELSE "idle"]
    /\ state = [r \in Requests |->
                  InitialState(IF variant = "v64" THEN "" ELSE user_id[r])]
    /\ idx = [r \in Requests |-> 0]
    /\ top_ads = [r \in Requests |-> <<>>]
    /\ all_recommendations = [r \in Requests |-> <<>>]
    /\ deduplicated_recommendations = [r \in Requests |-> <<>>]
    /\ top_recommendations = [r \in Requests |-> <<>>]
    /\ agg_recommendations = [r \in Requests |-> <<>>]
    /\ lookups = [r \in Requests |-> <<>>]
    /\ queries = [r \in Requests |-> <<>>]
    /\ trace = [r \in Requests |-> <<>>]
    /\ response = [r \in Requests |-> NoResponse]


\* ------------------------------------------------- stage 1: fetch customer
\* the record agent_1_node returns once customer and vectors are known
Fetched(s, customer_id, user_interests, entries) ==
    [InitialState(customer_id) EXCEPT
        !.user_interests = user_interests,
        !.user_vectors = UserVectors(entries),
        !.user_vectors_with_interests = UserVectorsWithInterests(entries),
        !.ad_url = s.ad_url]

\* v6.4 agent_1_node: every return that carries no vectors
Unfetched(s, customer_id, user_interests) ==
    [InitialState(customer_id) EXCEPT !.user_interests = user_interests,
                                      !.ad_url = s.ad_url]

\* v6.4 get_random_user_id followed by the checks of agent_1_node, mode "1".
\* picked is the customer random.choice lands on; none when the store is empty.
RandomUser64(s, store, picked, db_fails) ==
    IF db_fails \/ picked = "" THEN Unfetched(s, "", {})
    ELSE LET entries == store[picked]
             user_vectors == UserVectors(entries)
             user_vector_agg == aggregate_vectors(user_vectors)
         IN IF entries = <<>> THEN Unfetched(s, "", {})
            ELSE IF user_vectors = <<>>
            THEN Unfetched(s, picked, UserInterests(entries))
            ELSE IF user_vector_agg = <<>>
            THEN [Unfetched(s, picked, UserInterests(entries)) EXCEPT
                     !.user_vectors = user_vectors]
            ELSE [Fetched(s, picked, UserInterests(entries), entries) EXCEPT
                     !.user_vector_agg = user_vector_agg]

\* v6.4 agent_1_node, mode "2": the customer of dummy_facial_recognition
FacialUser64(s, store, db_fails) ==
    IF db_fails THEN Unfetched(s, "", {})
    ELSE LET entries == store[FACE_ID]
             user_interests ==
                 IF entries # <<>> THEN UserInterests(entries) ELSE {"Unknown"}
             user_vectors == UserVectors(entries)
         IN IF user_vectors = <<>> THEN Unfetched(s, FACE_ID, user_interests)
            ELSE [Fetched(s, FACE_ID, user_interests, entries) EXCEPT
                     !.user_vector_agg = aggregate_vectors(user_vectors)]

\* v6.4 agent_1_node
Agent1Result64(s, store, choice, env_ok, picked, db_fails) ==
    IF choice = "1" THEN
        IF ~env_ok THEN Unfetched(s, "", {})
        ELSE RandomUser64(s, store, picked, db_fails)
    ELSE IF choice = "2" THEN FacialUser64(s, store, db_fails)
    ELSE Unfetched(s, "", {})

\* v6.4: whether agent_1_node reads the interest store, and how the read ends
Lookup64(choice, env_ok, db_fails) ==
    IF (choice = "1" /\ env_ok) \/ choice = "2"
    THEN <<IF db_fails THEN "raised" ELSE "returned">>
    ELSE <<>>

Agent1_64(r) ==
    /\ variant = "v64"
    /\ pc[r] = "fetch"
    /\ \E choice \in {"1", "2", "other"}, env_ok \in BOOLEAN, db_fails \in BOOLEAN,
          picked \in {u \in UserIds : userinterests_collection[u] # <<>>} \cup {""} :
          /\ (picked = "") = (\A u \in UserIds : userinterests_collection[u] = <<>>)
          /\ state' = Set(state, r, Agent1Result64(state[r], userinterests_collection,
                                                  choice, env_ok, picked, db_fails))
          /\ lookups' = Set(lookups, r, Lookup64(choice, env_ok, db_fails))
    /\ pc' = Set(pc, r, "route")
    /\ Stage(r, "agent_1")
    /\ UNCHANGED <<collections, locals, queries, response>>

\* v7.0 get_user_data: the status it raises, 0 when it returns
GetUserDataStatus(entries, db_fails) ==
    IF db_fails THEN 500
    ELSE IF entries = <<>> THEN 404
    ELSE IF UserVectorsWithInterests(entries) = <<>> THEN 400
    ELSE 0

GetUserData70(r) ==
    /\ variant = "v70"
    /\ pc[r] = "fetch"
    /\ Stage(r, "get_user_data")
    /\ \E db_fails \in BOOLEAN :
          LET entries == userinterests_collection[user_id[r]]
              status == GetUserDataStatus(entries, db_fails)
          IN /\ lookups' = Set(lookups, r, <<IF db_fails THEN "raised" ELSE "returned">>)
             /\ IF status # 0
                THEN /\ Finish(r, HttpError(status))
                     /\ UNCHANGED state
                ELSE /\ state' = Set(state, r, Fetched(state[r], user_id[r],
                                                   UserInterests(entries), entries))
                     /\ pc' = Set(pc, r, "enter")
                     /\ UNCHANGED response
    /\ UNCHANGED <<collections, locals, queries>>

\* v7.1 agent_1_node raises ValueError for every failure; get_recommendations
\* maps an exception that is no HTTPException to 500.  0 when the node returns.
Agent1Status71(customer_id, entries, db_fails) ==
    IF customer_id = "" THEN 500
    ELSE IF db_fails THEN 500
    ELSE IF entries = <<>> THEN 500
    ELSE IF UserVectorsWithInterests(entries) = <<>> THEN 500
    ELSE 0

Agent1_71(r) ==
    /\ variant = "v71"
    /\ pc[r] = "fetch"
    /\ Stage(r, "agent_1")
    /\ \E db_fails \in BOOLEAN :
          LET customer_id == state[r].customer_id
              entries == IF customer_id \in UserIds
                         THEN userinterests_collection[customer_id] ELSE <<>>
              status == Agent1Status71(customer_id, entries, db_fails)
          IN /\ lookups' = Set(lookups, r, <<IF db_fails THEN "raised" ELSE "returned">>)
             /\ IF status # 0
                THEN /\ Finish(r, HttpError(status))
                     /\ UNCHANGED state
                ELSE /\ state' = Set(state, r, Fetched(state[r], customer_id,
                                                   UserInterests(entries), entries))
                     /\ pc' = Set(pc, r, "route")
                     /\ UNCHANGED response
    /\ UNCHANGED <<collections, locals, queries>>

\* the conditional edge after agent_1 of both graphs
RouteAfterAgent1(s) == IF s.customer_id # "" THEN "agent_2" ELSE "error_handler"

Route(r) ==
    /\ variant \in {"v64", "v71"}
    /\ pc[r] = "route"
    /\ pc' = Set(pc, r, IF RouteAfterAgent1(state[r]) = "agent_2"
                        THEN "enter" ELSE "error_handler")
    /\ UNCHANGED <<collections, lookups, state, locals, queries, trace, response>>


\* -------------------------------------------- stage 2: collect and select
\* v6.4 agent_2_node: the record of every early return and of `except Exception`
Agent2Defaults(s) ==
    [InitialState(s.customer_id) EXCEPT
        !.user_interests = s.user_interests,
        !.user_vectors = s.user_vectors,
        !.user_vectors_with_interests = s.user_vectors_with_interests,
        !.user_vector_agg = s.user_vector_agg]

\* entering the collector: v6.4 returns early without customer or vectors, and
\* its connection and debug scan of the index run inside the try block
Agent2Enter(r) ==
    /\ pc[r] = "enter"
    /\ Stage(r, IF variant = "v70" THEN "perform_selection_approach" ELSE "agent_2")
    /\ ClearLocals(r)
    /\ IF variant = "v64"
       THEN \E scan_fails \in BOOLEAN :
               IF \/ state[r].customer_id = ""
                  \/ state[r].user_vectors = <<>>
                  \/ scan_fails
               THEN /\ state' = Set(state, r, Agent2Defaults(state[r]))
                    /\ pc' = Set(pc, r, "validate")
               ELSE /\ pc' = Set(pc, r, "collect")
                    /\ UNCHANGED state
       ELSE /\ pc' = Set(pc, r, "collect")
            /\ UNCHANGED state
    /\ UNCHANGED <<collections, lookups, queries, response>>

NumVectors(r) == Len(state[r].user_vectors_with_interests)

Issued(r, vector_idx, outcome) ==
    queries' = Set(queries, r, Append(queries[r],
                     [vector_idx |-> vector_idx, outcome |-> outcome]))

\* mutant: `break` for `continue` when a query returns nothing
AfterNoAds_Break(i, n) == n

\* the loop index after `if not top_ads: ... continue`
AfterNoAds(i, n) == i + 1

\* mutant: a try/except around the query that logs and goes on to the next vector
QueryRaises_Skips(r) ==
    /\ pc[r] = "collect"
    /\ idx[r] < NumVectors(r)
    /\ Issued(r, idx[r], "raised")
    /\ idx' = Set(idx, r, idx[r] + 1)
    /\ UNCHANGED <<collections, lookups, pc, state, top_ads, all_recommendations,
                   deduplicated_recommendations, top_recommendations,
                   agg_recommendations, trace, response>>

\* the nearest-neighbour query of one vector raises: no variant catches it in
\* the loop.  v7.0 and v7.1 end with 500; v6.4 `except Exception` returns defaults
QueryRaises(r) ==
    /\ pc[r] = "collect"
    /\ idx[r] < NumVectors(r)
    /\ Issued(r, idx[r], "raised")
    /\ IF variant = "v64"
       THEN /\ state' = Set(state, r, Agent2Defaults(state[r]))
            /\ pc' = Set(pc, r, "validate")
            /\ UNCHANGED response
       ELSE /\ Finish(r, InternalError)
            /\ UNCHANGED state
    /\ UNCHANGED <<collections, lookups, locals, trace>>

\* mutant: a query that takes the documents it returns out of the index
Query_Consumes(r) ==
    /\ pc[r] = "collect"
    /\ idx[r] < NumVectors(r)
    /\ \E ads \in QueryResults(advertisements_collection) :
          /\ top_ads' = Set(top_ads, r, ads)
          /\ Issued(r, idx[r], IF ads = <<>> THEN "empty" ELSE "results")
          /\ all_recommendations' = Set(all_recommendations, r,
                 all_recommendations[r] \o VectorRecommendations(ads, idx[r]))
          /\ idx' = Set(idx, r, idx[r] + 1)
          /\ advertisements_collection' =
                 advertisements_collection \
                    {[product |-> ads[k].product, video_link |-> ads[k].video_link] :
                        k \in 1..Len(ads)}
    /\ UNCHANGED <<variant, userinterests_collection, user_id, lookups, pc, state,
                   deduplicated_recommendations, top_recommendations,
                   agg_recommendations, trace, response>>

\* mutant: the candidate pool is one module-level list that every request
\* appends to
Query_SharedPool(r) ==
    /\ pc[r] = "collect"
    /\ idx[r] < NumVectors(r)
    /\ \E ads \in QueryResults(advertisements_collection) :
          /\ top_ads' = Set(top_ads, r, ads)
          /\ Issued(r, idx[r], IF ads = <<>> THEN "empty" ELSE "results")
          /\ all_recommendations' =
                 [q \in Requests |->
                     all_recommendations[q] \o VectorRecommendations(ads, idx[r])]
          /\ idx' = Set(idx, r, idx[r] + 1)
    /\ UNCHANGED <<collections, lookups, pc, state, deduplicated_recommendations,
                   top_recommendations, agg_recommendations, trace, response>>

\* one iteration of `for idx, ... in enumerate(user_vectors_with_interests)`
Query(r) ==
    /\ pc[r] = "collect"
    /\ idx[r] < NumVectors(r)
    /\ \E ads \in QueryResults(advertisements_collection) :
          /\ top_ads' = Set(top_ads, r, ads)
          /\ Issued(r, idx[r], IF ads = <<>> THEN "empty" ELSE "results")
          /\ all_recommendations' = Set(all_recommendations, r,
                 all_recommendations[r] \o VectorRecommendations(ads, idx[r]))
          /\ idx' = Set(idx, r, IF ads = <<>> THEN AfterNoAds(idx[r], NumVectors(r))
                                ELSE idx[r] + 1)
    /\ UNCHANGED <<collections, lookups, pc, state, deduplicated_recommendations,
                   top_recommendations, agg_recommendations, trace, response>>

\* what an empty pool after the loop leads to: v7.0 raises HTTPException(404),
\* v7.1 raises ValueError (500 at the handler), v6.4 goes on to the aggregate
EmptyPoolStatus(v) == IF v = "v70" THEN 404 ELSE IF v = "v71" THEN 500 ELSE 0

\* the fields the selector writes into the record
Selected(s, deduplicated) ==
    [s EXCEPT !.ad_url = Head(deduplicated).url,
              !.product = Head(deduplicated).product,
              !.similarity_score = Head(deduplicated).score,
              !.play_ad = FALSE,
              !.top_recommendations = TopRecommendations(deduplicated)]

\* after the loop: the empty-pool check, then sort, dedup, top match, shortlist
SelectTop(r) ==
    /\ pc[r] = "collect"
    /\ idx[r] >= NumVectors(r)
    /\ IF all_recommendations[r] = <<>>
       THEN /\ IF EmptyPoolStatus(variant) # 0
               THEN Finish(r, HttpError(EmptyPoolStatus(variant)))
               ELSE /\ pc' = Set(pc, r, "aggregate")
                    /\ UNCHANGED response
            /\ UNCHANGED <<state, deduplicated_recommendations, top_recommendations,
                            trace>>
       ELSE LET deduplicated == Deduplicate(all_recommendations[r], variant)
            IN /\ deduplicated_recommendations' =
                      Set(deduplicated_recommendations, r, deduplicated)
               /\ top_recommendations' =
                      Set(top_recommendations, r, TopRecommendations(deduplicated))
               /\ IF variant = "v64" THEN UNCHANGED state
                  ELSE state' = Set(state, r, Selected(state[r], deduplicated))
               /\ pc' = Set(pc, r, IF variant = "v64" THEN "aggregate"
                                   ELSE IF variant = "v70" THEN "respond"
                                   ELSE "validate")
               /\ IF variant = "v70" THEN Stage(r, "select_top_recommendation")
                  ELSE UNCHANGED trace
               /\ UNCHANGED response
    /\ UNCHANGED <<collections, lookups, idx, top_ads, all_recommendations,
                   agg_recommendations, queries>>

\* v6.4: the fields of the aggregation approach for one query result
Aggregated(s, agg_recs) ==
    IF agg_recs = <<>> THEN s
    ELSE LET sorted == SortDesc(agg_recs, FALSE)
         IN [s EXCEPT !.ad_url_agg = Head(sorted).url,
                      !.product_agg = Head(sorted).product,
                      !.similarity_score_agg = Head(sorted).score,
                      !.top_recommendations_agg = TopRecommendationsAgg(sorted)]

\* v6.4: the comparison log and the return read top_match, which is bound only
\* when the selection pool was not empty; the NameError lands in `except`
Agent2Return64(s, deduplicated, agg_recs) ==
    IF deduplicated = <<>> THEN Agent2Defaults(s)
    ELSE Aggregated(Selected(Agent2Defaults(s), deduplicated), agg_recs)

\* v6.4: the query of the aggregated vector raises
AggregateRaises64(r) ==
    /\ variant = "v64"
    /\ pc[r] = "aggregate"
    /\ state[r].user_vector_agg # <<>>
    /\ Issued(r, AGG_VECTOR_IDX, "raised")
    /\ state' = Set(state, r, Agent2Defaults(state[r]))
    /\ pc' = Set(pc, r, "validate")
    /\ ClearLocals(r)
    /\ UNCHANGED <<collections, lookups, trace, response>>

\* v6.4: the aggregation approach and the return of agent_2_node
Aggregate64(r) ==
    /\ variant = "v64"
    /\ pc[r] = "aggregate"
    /\ IF state[r].user_vector_agg = <<>>
       THEN /\ state' = Set(state, r,
                     Agent2Return64(state[r], deduplicated_recommendations[r], <<>>))
            /\ top_ads' = Set(top_ads, r, <<>>)
            /\ agg_recommendations' = Set(agg_recommendations, r, <<>>)
            /\ UNCHANGED queries
       ELSE \E ads \in QueryResults(advertisements_collection) :
               LET agg_recs == VectorRecommendations(ads, AGG_VECTOR_IDX)
               IN /\ top_ads' = Set(top_ads, r, ads)
                  /\ agg_recommendations' =
                         Set(agg_recommendations, r, SortDesc(agg_recs, FALSE))
                  /\ Issued(r, AGG_VECTOR_IDX, IF ads = <<>> THEN "empty" ELSE "results")
                  /\ state' = Set(state, r,
                         Agent2Return64(state[r], deduplicated_recommendations[r],
                                        agg_recs))
    /\ pc' = Set(pc, r, "validate")
    /\ idx' = Set(idx, r, 0)
    /\ all_recommendations' = Set(all_recommendations, r, <<>>)
    /\ deduplicated_recommendations' = Set(deduplicated_recommendations, r, <<>>)
    /\ top_recommendations' = Set(top_recommendations, r, <<>>)
    /\ UNCHANGED <<collections, lookups, trace, response>>


\* ------------------------------------------- stage 3: threshold validator
\* mutant: the fallback branch forgets `state["product"] = DEFAULT_PRODUCT`
Agent3Result64_KeepsProduct(s) ==
    LET sel == IF MeetsThreshold(s.similarity_score)
               THEN [s EXCEPT !.play_ad = TRUE]
               ELSE [s EXCEPT !.play_ad = FALSE, !.ad_url = DEFAULT_AD_URL]
    IN IF MeetsThreshold(s.similarity_score_agg)
       THEN [sel EXCEPT !.play_ad_agg = TRUE]
       ELSE [sel EXCEPT !.play_ad_agg = FALSE,
                        !.ad_url_agg = DEFAULT_AD_URL,
                        !.product_agg = DEFAULT_PRODUCT]

\* v6.4 agent_3_node: the selection approach, then the aggregation approach
Agent3Result64(s) ==
    LET sel == IF MeetsThreshold(s.similarity_score)
               THEN [s EXCEPT !.play_ad = TRUE]
               ELSE [s EXCEPT !.play_ad = FALSE,
                              !.ad_url = DEFAULT_AD_URL,
                              !.product = DEFAULT_PRODUCT]
    IN IF MeetsThreshold(s.similarity_score_agg)
       THEN [sel EXCEPT !.play_ad_agg = TRUE]
       ELSE [sel EXCEPT !.play_ad_agg = FALSE,
                        !.ad_url_agg = DEFAULT_AD_URL,
                        !.product_agg = DEFAULT_PRODUCT]

\* mutant: the fallback branch leaves the url and the product of the match
Agent3Result71_KeepsMatch(s) ==
    IF MeetsThreshold(s.similarity_score)
    THEN [s EXCEPT !.play_ad = TRUE]
    ELSE [s EXCEPT !.play_ad = FALSE,
                   !.similarity_score = 0,
                   !.top_recommendations = <<>>]

\* mutant: the fallback branch leaves the losing score on the record
Agent3Result71_KeepsScore(s) ==
    IF MeetsThreshold(s.similarity_score)
    THEN [s EXCEPT !.play_ad = TRUE]
    ELSE [s EXCEPT !.play_ad = FALSE,
                   !.ad_url = DEFAULT_AD_URL,
                   !.product = DEFAULT_PRODUCT,
                   !.top_recommendations = <<>>]

\* v7.1 agent_3_node
Agent3Result71(s) ==
    IF MeetsThreshold(s.similarity_score)
    THEN [s EXCEPT !.play_ad = TRUE]
    ELSE [s EXCEPT !.play_ad = FALSE,
                   !.ad_url = DEFAULT_AD_URL,
                   !.product = DEFAULT_PRODUCT,
                   !.similarity_score = 0,
                   !.top_recommendations = <<>>]

Agent3(r) ==
    /\ variant \in {"v64", "v71"}
    /\ pc[r] = "validate"
    /\ Stage(r, "agent_3")
    /\ state' = Set(state, r, IF variant = "v64" THEN Agent3Result64(state[r])
                              ELSE Agent3Result71(state[r]))
    /\ pc' = Set(pc, r, "respond")
    /\ ClearLocals(r)
    /\ UNCHANGED <<collections, lookups, queries, response>>

\* error_handler_node of both graphs; v7.1 has no aggregation fields
ErrorHandlerResult(s, v) ==
    [Agent2Defaults(s) EXCEPT
        !.ad_url = DEFAULT_VIDEO_URL,
        !.ad_url_agg = IF v = "v64" THEN DEFAULT_VIDEO_URL ELSE ""]

\* mutant: an edge from error_handler to agent_2 in place of the edge to END
ErrorHandler_ThenAgent2(r) ==
    /\ variant \in {"v64", "v71"}
    /\ pc[r] = "error_handler"
    /\ Stage(r, "error_handler")
    /\ state' = Set(state, r, ErrorHandlerResult(state[r], variant))
    /\ pc' = Set(pc, r, "enter")
    /\ UNCHANGED <<collections, lookups, locals, queries, response>>

ErrorHandler(r) ==
    /\ variant \in {"v64", "v71"}
    /\ pc[r] = "error_handler"
    /\ Stage(r, "error_handler")
    /\ state' = Set(state, r, ErrorHandlerResult(state[r], variant))
    /\ pc' = Set(pc, r, "respond")
    /\ UNCHANGED <<collections, lookups, locals, queries, response>>

\* --------------------------------------------------- the caller's outcome
Ok(s) ==
    [kind |-> "http", status |-> 200, customer_id |-> s.customer_id,
     top_ad |-> [url |-> s.ad_url, product |-> s.product, score |-> s.similarity_score],
     top_recommendations |-> s.top_recommendations, opened |-> <<>>]

\* v7.0 get_recommendations: the response is built from the selection as it is
Respond70(s) == Ok(s)

\* mutant: the handler answers with whatever record the graph returned
Respond71_Unchecked(s) == Ok(s)

\* v7.1 get_recommendations: `if not result["customer_id"] or not
\* result["top_recommendations"]: raise HTTPException(404)`
Respond71(s) ==
    IF s.customer_id = "" \/ s.top_recommendations = <<>> THEN HttpError(404) ELSE Ok(s)

\* v6.4 main: webbrowser.open for each approach that has a url and play_ad
Main64(s) ==
    [kind |-> "cli", status |-> 0, customer_id |-> s.customer_id,
     top_ad |-> [url |-> s.ad_url, product |-> s.product, score |-> s.similarity_score],
     top_recommendations |-> s.top_recommendations,
     opened |-> (IF s.ad_url # "" /\ s.play_ad THEN <<s.ad_url>> ELSE <<>>)
                \o (IF s.ad_url_agg # "" /\ s.play_ad_agg THEN <<s.ad_url_agg>> ELSE <<>>)]

Respond(r) ==
    /\ pc[r] = "respond"
    /\ Finish(r, IF variant = "v70" THEN Respond70(state[r])
                 ELSE IF variant = "v71" THEN Respond71(state[r])
                 ELSE Main64(state[r]))
    /\ ClearLocals(r)
    /\ UNCHANGED <<collections, lookups, state, queries, trace>>

\* ------------------------------------------------------- specification
Next ==
    \E r \in Requests :
        \/ Agent1_64(r)
        \/ GetUserData70(r)
        \/ Agent1_71(r)
        \/ Route(r)
        \/ Agent2Enter(r)
        \/ QueryRaises(r)
        \/ Query(r)
        \/ SelectTop(r)
        \/ AggregateRaises64(r)
        \/ Aggregate64(r)
        \/ Agent3(r)
        \/ ErrorHandler(r)
        \/ Respond(r)

Spec == Init /\ [][Next]_vars

\* ------------------------------------ two requests of a service, interleaved
\* Both requests are in progress at once, for different customers, and their
\* steps interleave in any order.
ConcurrentStores ==
    {[u \in UserIds |-> IF u = FACE_ID THEN e1 ELSE e2] :
        e1 \in SeqsUpTo(Entries, MaxConcurrentEntries),
        e2 \in SeqsUpTo(Entries, MaxConcurrentEntries)}

\* the advertisement indexes considered here: empty or of one document
ConcurrentIndexes == {c \in Indexes : Cardinality(c) <= 1}

InitConcurrent ==
    /\ variant \in {"v70", "v71"}
    /\ userinterests_collection \in ConcurrentStores
    /\ advertisements_collection \in ConcurrentIndexes
    /\ user_id = [r \in Requests |-> IF r = 1 THEN FACE_ID ELSE "u2"]
    /\ pc = [r \in Requests |-> "fetch"]
    /\ state = [r \in Requests |-> InitialState(user_id[r])]
    /\ idx = [r \in Requests |-> 0]
    /\ top_ads = [r \in Requests |-> <<>>]
    /\ all_recommendations = [r \in Requests |-> <<>>]
    /\ deduplicated_recommendations = [r \in Requests |-> <<>>]
    /\ top_recommendations = [r \in Requests |-> <<>>]
    /\ agg_recommendations = [r \in Requests |-> <<>>]
    /\ lookups = [r \in Requests |-> <<>>]
    /\ queries = [r \in Requests |-> <<>>]
    /\ trace = [r \in Requests |-> <<>>]
    /\ response = [r \in Requests |-> NoResponse]

\* the steps of one request of a service
ServiceStep(r) ==
    \/ GetUserData70(r)
    \/ Agent1_71(r)
    \/ Route(r)
    \/ Agent2Enter(r)
    \/ QueryRaises(r)
    \/ Query(r)
    \/ SelectTop(r)
    \/ Agent3(r)
    \/ Respond(r)

NextConcurrent == \E r \in Requests : ServiceStep(r)

SpecConcurrent == InitConcurrent /\ [][NextConcurrent]_vars

\* ---------------------------------- the aggregator on a variety of vectors
\* v6.4 with one customer whose records carry vectors of several values (and
\* one of another length); the advertisement index is empty.
AggVectors == {<<>>, <<1, 2>>, <<3, 8>>, <<-4, 6>>, <<5>>}

AggStores ==
    {[u \in UserIds |-> IF u = FACE_ID THEN entries ELSE <<>>] :
        entries \in SeqsUpTo([InterestName : InterestNames, vector : AggVectors],
                             MaxAggEntries)}

InitAggregator ==
    /\ variant = "v64"
    /\ userinterests_collection \in AggStores
    /\ advertisements_collection = {}
    /\ user_id = [r \in Requests |-> IF r = 1 THEN FACE_ID ELSE "u2"]
    /\ pc = [r \in Requests |-> IF r = 1 THEN "fetch" ELSE "idle"]
    /\ state = [r \in Requests |-> InitialState("")]
    /\ idx = [r \in Requests |-> 0]
    /\ top_ads = [r \in Requests |-> <<>>]
    /\ all_recommendations = [r \in Requests |-> <<>>]
    /\ deduplicated_recommendations = [r \in Requests |-> <<>>]
    /\ top_recommendations = [r \in Requests |-> <<>>]
    /\ agg_recommendations = [r \in Requests |-> <<>>]
    /\ lookups = [r \in Requests |-> <<>>]
    /\ queries = [r \in Requests |-> <<>>]
    /\ trace = [r \in Requests |-> <<>>]
    /\ response = [r \in Requests |-> NoResponse]

NextAggregator ==
    \E r \in Requests :
        \/ Agent1_64(r)
        \/ Route(r)

SpecAggregator == InitAggregator /\ [][NextAggregator]_vars

\* ------------------------------------- the selector on larger query results
\* A customer with one interest vector whose query has just returned: up to
\* MaxAds advertisements of distinct products, by non-increasing similarity,
\* each with a link of its own or with one shared link.
OneVectorEntries == <<[InterestName |-> "i1", vector |-> <<2, 4>>]>>

OneVectorStore == [u \in UserIds |-> IF u = FACE_ID THEN OneVectorEntries ELSE <<>>]

LinkOf(k, choice) ==
    IF choice = "shared" THEN "https://y/s?x=1"
    ELSE "https://y/" \o ToString(k) \o "?x=1"

SelectorResults ==
    UNION {{[k \in 1..n |->
                [product |-> "p" \o ToString(k),
                 video_link |-> LinkOf(k, choice[k]),
                 similarity |-> IF k <= high THEN 85 ELSE 70]] :
              choice \in [1..n -> {"shared", "own"}], high \in 0..n} :
           n \in 0..MaxAds}

\* the record the fetch stage of each variant leaves for this customer
FetchedOneVector(v) ==
    IF v = "v64"
    THEN Agent1Result64(InitialState(""), OneVectorStore, "2", TRUE, "", FALSE)
    ELSE Fetched(InitialState(FACE_ID), FACE_ID, UserInterests(OneVectorEntries),
                 OneVectorEntries)

InitSelector ==
    /\ variant \in Variants
    /\ userinterests_collection = OneVectorStore
    /\ user_id = [r \in Requests |-> IF r = 1 THEN FACE_ID ELSE "u2"]
    /\ pc = [r \in Requests |-> IF r = 1 THEN "collect" ELSE "idle"]
    /\ \E ads \in SelectorResults :
          /\ advertisements_collection =
                 {[product |-> ads[k].product, video_link |-> ads[k].video_link] :
                     k \in 1..Len(ads)}
          /\ top_ads = [r \in Requests |-> IF r = 1 THEN ads ELSE <<>>]
          /\ all_recommendations =
                 [r \in Requests |-> IF r = 1 THEN VectorRecommendations(ads, 0) ELSE <<>>]
          /\ queries = [r \in Requests |->
                 IF r = 1 THEN <<[vector_idx |-> 0,
                                  outcome |-> IF ads = <<>> THEN "empty" ELSE "results"]>>
                 ELSE <<>>]
    /\ state = [r \in Requests |->
                  IF r = 1 THEN FetchedOneVector(variant)
                  ELSE InitialState(IF variant = "v64" THEN "" ELSE user_id[r])]
    /\ idx = [r \in Requests |-> IF r = 1 THEN 1 ELSE 0]
    /\ deduplicated_recommendations = [r \in Requests |-> <<>>]
    /\ top_recommendations = [r \in Requests |-> <<>>]
    /\ agg_recommendations = [r \in Requests |-> <<>>]
    /\ lookups = [r \in Requests |-> IF r = 1 THEN <<"returned">> ELSE <<>>]
    /\ trace = [r \in Requests |->
                  IF r # 1 THEN <<>>
                  ELSE IF variant = "v70"
                  THEN <<"get_user_data", "perform_selection_approach">>
                  ELSE <<"agent_1", "agent_2">>]
    /\ response = [r \in Requests |-> NoResponse]

NextSelector ==
    \E r \in Requests :
        \/ SelectTop(r)
        \/ Agent3(r)
        \/ Respond(r)

SpecSelector == InitSelector /\ [][NextSelector]_vars

\* --------------------------------------------- one run of a compiled graph
\* graph.invoke of v6.4 and of v7.1 on an index of at most one document.  The
\* graph runs its nodes one after the other in the calling thread, so a step
\* that can be taken is taken.
InitGraph ==
    /\ variant \in {"v64", "v71"}
    /\ userinterests_collection \in Stores
    /\ advertisements_collection \in ConcurrentIndexes
    /\ user_id = [r \in Requests |-> IF r = 1 THEN FACE_ID ELSE "u2"]
    /\ pc = [r \in Requests |-> IF r = 1 THEN "fetch" ELSE "idle"]
    /\ state = [r \in Requests |->
                  InitialState(IF variant = "v64" THEN "" ELSE user_id[r])]
    /\ idx = [r \in Requests |-> 0]
    /\ top_ads = [r \in Requests |-> <<>>]
    /\ all_recommendations = [r \in Requests |-> <<>>]
    /\ deduplicated_recommendations = [r \in Requests |-> <<>>]
    /\ top_recommendations = [r \in Requests |-> <<>>]
    /\ agg_recommendations = [r \in Requests |-> <<>>]
    /\ lookups = [r \in Requests |-> <<>>]
    /\ queries = [r \in Requests |-> <<>>]
    /\ trace = [r \in Requests |-> <<>>]
    /\ response = [r \in Requests |-> NoResponse]

NextGraph ==
    \E r \in Requests :
        \/ Agent1_64(r)
        \/ Agent1_71(r)
        \/ Route(r)
        \/ Agent2Enter(r)
        \/ QueryRaises(r)
        \/ Query(r)
        \/ SelectTop(r)
        \/ AggregateRaises64(r)
        \/ Aggregate64(r)
        \/ Agent3(r)
        \/ ErrorHandler(r)
        \/ Respond(r)

SpecGraph == InitGraph /\ [][NextGraph]_vars /\ WF_vars(NextGraph)


\* ------------------------------------------------------------- properties
Last(s) == s[Len(s)]

Services == {"v70", "v71"}
Graphs == {"v64", "v71"}

\* the step of request r is the threshold validator
ValidatorStep(r) == pc[r] = "validate" /\ pc'[r] = "respond"

\* request r has just left the threshold validator
Validated(r) == pc[r] = "respond" /\ trace[r] # <<>> /\ Last(trace[r]) = "agent_3"

\* the interest-store read of request r returned (did not raise)
LookupReturned(r) == lookups[r] = <<"returned">>

\* C1: whenever the threshold validator (v6.4, v7.1) runs on a record whose
\* similarity_score is at least 0.7, 0.7 included, the record it returns has
\* play_ad true and the same ad_url, product, similarity_score and
\* top_recommendations.
C1_PassThrough ==
    [][\A r \in Requests :
          (ValidatorStep(r) /\ state[r].similarity_score >= SIMILARITY_THRESHOLD)
          => /\ state'[r].play_ad = TRUE
             /\ state'[r].ad_url = state[r].ad_url
             /\ state'[r].product = state[r].product
             /\ state'[r].similarity_score = state[r].similarity_score
             /\ state'[r].top_recommendations = state[r].top_recommendations]_vars

\* a match scoring exactly 0.7 has been approved
C1_Witness ==
    \E r \in Requests :
        /\ Validated(r)
        /\ state[r].play_ad
        /\ state[r].similarity_score = SIMILARITY_THRESHOLD
        /\ state[r].ad_url \notin {"", DEFAULT_AD_URL}
        /\ state[r].top_recommendations # <<>>

\* C2: whenever the threshold validator (v6.4, v7.1) runs on a record whose
\* similarity_score is below 0.7, the record it returns has play_ad false, the
\* default_ad url and the product "Generic Product".
C2_Fallback ==
    [][\A r \in Requests :
          (ValidatorStep(r) /\ state[r].similarity_score < SIMILARITY_THRESHOLD)
          => /\ state'[r].play_ad = FALSE
             /\ state'[r].ad_url = DEFAULT_AD_URL
             /\ state'[r].product = DEFAULT_PRODUCT]_vars

\* a selected match below 0.7 has been replaced by the fallback (v6.4 keeps
\* the losing score on the record)
C2_Witness ==
    \E r \in Requests :
        /\ Validated(r)
        /\ ~state[r].play_ad
        /\ state[r].similarity_score \in Scores
        /\ state[r].similarity_score < SIMILARITY_THRESHOLD
        /\ state[r].ad_url = DEFAULT_AD_URL
        /\ state[r].product = DEFAULT_PRODUCT

\* C3: in all three variants no run hands the caller, with a success outcome,
\* a chosen advertisement whose similarity score is below 0.7: a 200 response
\* of a service carries a top_ad at or above 0.7, and the CLI opens only
\* advertisements at or above 0.7.
C3_ThresholdBeforeSuccess ==
    \A r \in Requests :
        /\ (response[r].kind = "http" /\ response[r].status = 200)
           => response[r].top_ad.score >= SIMILARITY_THRESHOLD
        /\ (response[r].kind = "cli" /\ state[r].play_ad)
           => state[r].similarity_score >= SIMILARITY_THRESHOLD
        /\ (response[r].kind = "cli" /\ state[r].play_ad_agg)
           => state[r].similarity_score_agg >= SIMILARITY_THRESHOLD

\* C4: in the v7.1 service a request whose best candidate scores below 0.7
\* (the validator ended with play_ad false) ends with a 200 response carrying
\* the fallback advertisement, never with an HTTP error.
C4_LowConfidenceIsNoError ==
    \A r \in Requests :
        (/\ variant = "v71"
         /\ pc[r] = "done"
         /\ trace[r] # <<>>
         /\ Last(trace[r]) = "agent_3"
         /\ ~state[r].play_ad)
        => /\ response[r].status = 200
           /\ response[r].top_ad.url = DEFAULT_AD_URL
           /\ response[r].top_ad.product = DEFAULT_PRODUCT

\* C5: in both services a request for a customer without interest records ends
\* with 404, and no nearest-neighbour query is issued for it.
C5_UnknownCustomerNotFound ==
    \A r \in Requests :
        (/\ variant \in Services
         /\ pc[r] = "done"
         /\ LookupReturned(r)
         /\ userinterests_collection[user_id[r]] = <<>>)
        => /\ response[r] = HttpError(404)
           /\ queries[r] = <<>>

\* C6: in both services a request for a customer whose interest records all
\* lack a vector ends with 400.
C6_NoVectorInvalidInput ==
    \A r \in Requests :
        (/\ variant \in Services
         /\ pc[r] = "done"
         /\ LookupReturned(r)
         /\ userinterests_collection[user_id[r]] # <<>>
         /\ UserVectors(userinterests_collection[user_id[r]]) = <<>>)
        => response[r] = HttpError(400)

\* C7: in both services the collector, once every vector has been queried,
\* fails exactly when the merged pool is empty, and that failure is the 404
\* of "no advertisements found".
C7_EmptyPoolNotFound ==
    [][\A r \in Requests :
          (/\ variant \in Services
           /\ pc[r] = "collect"
           /\ idx[r] >= NumVectors(r)
           /\ pc'[r] # "collect")
          => /\ (all_recommendations[r] = <<>>) <=> (pc'[r] = "done")
             /\ (all_recommendations[r] = <<>>) => response'[r] = HttpError(404)]_vars

\* the interest vectors of request r that were queried
Queried(r) == {queries[r][i].vector_idx : i \in 1..Len(queries[r])}

Survives(ads, k) ==
    /\ ads[k].video_link # ""
    /\ ~\E i \in 1..(k - 1) :
           ads[i].product = ads[k].product /\ ads[i].video_link # ""

IsPrefix(a, b) == Len(a) <= Len(b) /\ SubSeq(b, 1, Len(a)) = a

\* the step of request r is a collector query that returned
QueryReturned(r) ==
    /\ pc[r] = "collect"
    /\ Len(queries'[r]) = Len(queries[r]) + 1
    /\ Last(queries'[r]).outcome \in {"empty", "results"}

\* C9: a query that returns (zero results included) never ends the
\* collection: the loop goes on to the next vector, the pool keeps what it
\* held and gains every surviving candidate of the query; and when the loop
\* ends every vector has been queried, in order, and the selector gets the
\* whole pool.
C9_ZeroResultsDoNotAbort ==
    [][\A r \in Requests :
          /\ QueryReturned(r)
             => /\ pc'[r] = "collect"
                /\ idx'[r] = idx[r] + 1
                /\ Last(queries'[r]).vector_idx = idx[r]
                /\ IsPrefix(all_recommendations[r], all_recommendations'[r])
                /\ \A k \in 1..Len(top_ads'[r]) :
                      Survives(top_ads'[r], k)
                      => \E c \in Range(all_recommendations'[r]) :
                            /\ c.vector_idx = idx[r]
                            /\ c.product = top_ads'[r][k].product
                            /\ c.score = top_ads'[r][k].similarity
                            /\ c.url = top_ads'[r][k].video_link \o AUTOPLAY_SUFFIX
          /\ (pc[r] = "collect" /\ pc'[r] # "collect" /\ idx[r] >= NumVectors(r))
             => /\ Len(queries[r]) = NumVectors(r)
                /\ \A j \in 1..Len(queries[r]) : queries[r][j].vector_idx = j - 1
                /\ all_recommendations'[r] = all_recommendations[r]]_vars

\* the first vector's query returned nothing, the second vector's candidates
\* are in the finished pool
C9_Witness ==
    \E r \in Requests :
        /\ pc[r] = "collect"
        /\ idx[r] = NumVectors(r)
        /\ Len(queries[r]) = 2
        /\ queries[r][1].outcome = "empty"
        /\ queries[r][2].outcome = "results"
        /\ all_recommendations[r] # <<>>
        /\ \A c \in Range(all_recommendations[r]) : c.vector_idx = 1

UniqueProducts(recs) ==
    \A i, j \in 1..Len(recs) : i # j => recs[i].product # recs[j].product

UniqueUrls(recs) ==
    \A i, j \in 1..Len(recs) : i # j => recs[i].url # recs[j].url

\* C10: the deduplicated list never holds two entries of one product and the
\* shortlist never holds two entries of one url, in the selection of every
\* variant and in the aggregation approach of v6.4.
C10_NoDuplicates ==
    \A r \in Requests :
        /\ UniqueProducts(deduplicated_recommendations[r])
        /\ UniqueProducts(agg_recommendations[r])
        /\ UniqueUrls(state[r].top_recommendations)
        /\ UniqueUrls(state[r].top_recommendations_agg)
        /\ UniqueUrls(response[r].top_recommendations)

\* the selector has dropped a repeated product and a repeated url
C10_Witness ==
    \E r \in Requests :
        /\ Len(all_recommendations[r]) > Len(deduplicated_recommendations[r])
        /\ Len(deduplicated_recommendations[r]) > Len(state[r].top_recommendations)
        /\ Len(state[r].top_recommendations) >= 1

\* the entries of a list that have the product of c
OfProduct(recs, c) == {i \in 1..Len(recs) : recs[i].product = c.product}

\* C11: once the selector has deduplicated a pool, every product of the pool
\* has exactly one entry in the deduplicated list, that entry is a candidate
\* of the pool, and no pool candidate of the product scores higher.
C11_KeepsBestOfProduct ==
    \A r \in Requests :
        deduplicated_recommendations[r] # <<>>
        => \A c \in Range(all_recommendations[r]) :
              /\ Cardinality(OfProduct(deduplicated_recommendations[r], c)) = 1
              /\ \A i \in OfProduct(deduplicated_recommendations[r], c) :
                    /\ deduplicated_recommendations[r][i] \in Range(all_recommendations[r])
                    /\ deduplicated_recommendations[r][i].score >= c.score

\* the pool holds one product at 0.65 from the first vector and at 0.85 from
\* the second, and the deduplicated list keeps the 0.85 one
C11_Witness ==
    \E r \in Requests :
        /\ deduplicated_recommendations[r] # <<>>
        /\ \E c1, c2 \in Range(all_recommendations[r]) :
              /\ c1.product = c2.product
              /\ c1.vector_idx = 0 /\ c1.score = 65
              /\ c2.vector_idx = 1 /\ c2.score = 85
              /\ c2 \in Range(deduplicated_recommendations[r])
              /\ c1 \notin Range(deduplicated_recommendations[r])

\* C12: in v7.0 and v7.1, of the pool candidates of one product with equal
\* scores the deduplicated list keeps one of the lowest vector index, and of
\* the candidates that tie for the highest score the top match is one of the
\* lowest vector index.
C12_EarlierVectorWinsTie ==
    \A r \in Requests :
        (variant \in Services /\ deduplicated_recommendations[r] # <<>>)
        => /\ \A i \in 1..Len(deduplicated_recommendations[r]) :
                 \A c \in Range(all_recommendations[r]) :
                    (/\ c.product = deduplicated_recommendations[r][i].product
                     /\ c.score = deduplicated_recommendations[r][i].score)
                    => deduplicated_recommendations[r][i].vector_idx <= c.vector_idx
           /\ \A c \in Range(all_recommendations[r]) :
                 /\ c.score <= Head(deduplicated_recommendations[r]).score
                 /\ c.score = Head(deduplicated_recommendations[r]).score
                    => Head(deduplicated_recommendations[r]).vector_idx <= c.vector_idx
           /\ state[r].ad_url = Head(deduplicated_recommendations[r]).url
           /\ state[r].product = Head(deduplicated_recommendations[r]).product

\* two vectors returned different products at the same top score, and one
\* product came back from both vectors at the same score
C12_Witness ==
    \E r \in Requests :
        /\ variant \in Services
        /\ deduplicated_recommendations[r] # <<>>
        /\ Head(deduplicated_recommendations[r]).vector_idx = 0
        /\ \E c1, c2, c3 \in Range(all_recommendations[r]) :
              /\ c1.vector_idx = 0 /\ c2.vector_idx = 1 /\ c3.vector_idx = 1
              /\ c1.score = c2.score /\ c1.product # c2.product
              /\ c1.score = Head(deduplicated_recommendations[r]).score
              /\ c3.product = c1.product /\ c3.score = c1.score

\* the distinct urls of a list of candidates
Urls(recs) == {recs[i].url : i \in 1..Len(recs)}

\* C13: once the selector has run on a non-empty pool, the shortlist has
\* min(5, number of distinct urls of the deduplicated list) entries, its
\* first entry carries the highest score of the deduplicated list, and the
\* services hand on exactly that shortlist.
C13_ShortlistLength ==
    \A r \in Requests :
        deduplicated_recommendations[r] # <<>>
        => /\ Len(top_recommendations[r]) =
                 Min(5, Cardinality(Urls(deduplicated_recommendations[r])))
           /\ \A i \in 1..Len(deduplicated_recommendations[r]) :
                 deduplicated_recommendations[r][i].score <= top_recommendations[r][1].score
           /\ \E i \in 1..Len(deduplicated_recommendations[r]) :
                 deduplicated_recommendations[r][i].score = top_recommendations[r][1].score
           /\ variant \in Services
              => state[r].top_recommendations = top_recommendations[r]

\* more than five distinct urls remained after deduplication, and one url was
\* shared: the shortlist stops at five
C13_Witness ==
    \E r \in Requests :
        /\ Cardinality(Urls(deduplicated_recommendations[r])) > 5
        /\ Len(deduplicated_recommendations[r]) >
              Cardinality(Urls(deduplicated_recommendations[r]))
        /\ Len(top_recommendations[r]) = 5

\* the graph of request r has run to END and its last node was `node`
EndedAt(r, node) ==
    /\ variant \in Graphs
    /\ pc[r] = "done"
    /\ trace[r] # <<>>
    /\ Last(trace[r]) = node

\* C14: in v6.4 and v7.1 every final record with play_ad false carries the
\* default_ad url and the product "Generic Product".
C14_FallbackWheneverNotPlayed ==
    \A r \in Requests :
        ((EndedAt(r, "agent_3") \/ EndedAt(r, "error_handler")) /\ ~state[r].play_ad)
        => /\ state[r].ad_url = DEFAULT_AD_URL
           /\ state[r].product = DEFAULT_PRODUCT

\* C14 as amended: a final record with play_ad false that comes from the
\* threshold validator carries the default_ad url and "Generic Product"; one
\* that comes from the error handler carries the default_video url and an
\* empty product.
C14_FallbackAfterValidator ==
    \A r \in Requests :
        /\ (EndedAt(r, "agent_3") /\ ~state[r].play_ad)
           => /\ state[r].ad_url = DEFAULT_AD_URL
              /\ state[r].product = DEFAULT_PRODUCT
        /\ EndedAt(r, "error_handler")
           => /\ ~state[r].play_ad
              /\ state[r].ad_url = DEFAULT_VIDEO_URL
              /\ state[r].product = ""

\* a v7.1 run whose query returned advertisements has ended behind the
\* validator with play_ad false and the fallback advertisement
C14_Witness ==
    \E r \in Requests :
        /\ variant = "v71"
        /\ EndedAt(r, "agent_3")
        /\ ~state[r].play_ad
        /\ \E i \in 1..Len(queries[r]) : queries[r][i].outcome = "results"
        /\ state[r].ad_url = DEFAULT_AD_URL
        /\ state[r].product = DEFAULT_PRODUCT

\* the fetch stage of request r obtained no customer: no identifier, or an
\* identifier the interest store holds no record of
NoCustomer(r) ==
    \/ state[r].customer_id = ""
    \/ /\ state[r].customer_id \in UserIds
       /\ userinterests_collection[state[r].customer_id] = <<>>

\* C15: in v6.4 and v7.1 every finished run whose fetch stage obtained no
\* customer went through the error handler and ended with the default_video
\* url, play_ad false, an empty product and score 0.
C15_NoCustomerEndsInErrorFallback ==
    \A r \in Requests :
        (variant \in Graphs /\ pc[r] = "done" /\ trace[r] # <<>> /\ NoCustomer(r))
        => /\ Last(trace[r]) = "error_handler"
           /\ state[r].ad_url = DEFAULT_VIDEO_URL
           /\ state[r].ad_url # DEFAULT_AD_URL
           /\ ~state[r].play_ad
           /\ state[r].product = ""
           /\ state[r].similarity_score = 0

\* C16: in v6.4 and v7.1 the stage after the fetch stage is the collector
\* exactly when a customer identifier and at least one non-empty vector were
\* obtained; otherwise it is the error handler, and neither the collector
\* nor the validator runs.
C16_BranchOnCustomerAndVector ==
    \A r \in Requests :
        (variant \in Graphs /\ Len(trace[r]) >= 2)
        => IF state[r].customer_id # "" /\ state[r].user_vectors_with_interests # <<>>
           THEN trace[r][2] = "agent_2"
           ELSE /\ trace[r][2] = "error_handler"
                /\ "agent_2" \notin Range(trace[r])
                /\ "agent_3" \notin Range(trace[r])

\* a read of the interest store or a query of the index raised in request r
Raised(r) ==
    \/ "raised" \in Range(lookups[r])
    \/ \E i \in 1..Len(queries[r]) : queries[r][i].outcome = "raised"

\* C17: a run in which a stage raised never ends with an ordinary outcome:
\* the services answer 500, and the CLI does not end with a result record.
C17_FailureNotSwallowed ==
    \A r \in Requests :
        (pc[r] = "done" /\ Raised(r))
        => IF variant \in Services
           THEN response[r] = HttpError(500)
           ELSE response[r].kind # "cli"

\* sum over the vectors of n * (component i) - total: zero exactly when
\* total / n is the arithmetic mean of the components i
RECURSIVE Deviation(_, _, _, _)
Deviation(vectors, i, total, n) ==
    IF vectors = <<>> THEN 0
    ELSE (n * Head(vectors)[i] - total) + Deviation(Tail(vectors), i, total, n)

EqualLength(vectors) ==
    \A j, k \in 1..Len(vectors) : Len(vectors[j]) = Len(vectors[k])

\* C18: whenever the fetch stage of v6.4 has aggregated a non-empty list of
\* vectors of one length, the aggregate has that length and each component
\* is the arithmetic mean of the vectors' components; the aggregate of the
\* empty list is the empty list.
C18_AggregateIsMean ==
    /\ aggregate_vectors(<<>>) = <<>>
    /\ \A r \in Requests :
          (/\ variant = "v64"
           /\ pc[r] # "fetch"
           /\ state[r].user_vectors # <<>>
           /\ EqualLength(state[r].user_vectors))
          => /\ Len(state[r].user_vector_agg) = Len(state[r].user_vectors[1])
             /\ \A i \in 1..Len(state[r].user_vector_agg) :
                   /\ state[r].user_vector_agg[i].den > 0
                   /\ Deviation(state[r].user_vectors, i,
                                state[r].user_vector_agg[i].num,
                                state[r].user_vector_agg[i].den) = 0

\* three different vectors were aggregated and a mean is no whole number
C18_Witness ==
    \E r \in Requests :
        /\ Len(state[r].user_vectors) = 3
        /\ Cardinality(Range(state[r].user_vectors)) = 3
        /\ Len(state[r].user_vector_agg) = 2
        /\ \E i \in 1..2 :
              state[r].user_vector_agg[i].num % state[r].user_vector_agg[i].den # 0

\* C19: no step of any variant, whatever the outcome of the run, changes the
\* advertisement index or the stored interest records.
C19_CollectionsReadOnly ==
    [][/\ advertisements_collection' = advertisements_collection
       /\ userinterests_collection' = userinterests_collection]_vars

\* a run that read the interest store and got advertisements back from the
\* index has ended
C19_Witness ==
    \E r \in Requests :
        /\ pc[r] = "done"
        /\ LookupReturned(r)
        /\ \E i \in 1..Len(queries[r]) : queries[r][i].outcome = "results"
        /\ advertisements_collection # {}
        /\ userinterests_collection[FACE_ID] # <<>>

\* everything that belongs to request r
OfRequest(r) ==
    <<pc[r], state[r], idx[r], top_ads[r], all_recommendations[r],
      deduplicated_recommendations[r], top_recommendations[r],
      agg_recommendations[r], lookups[r], queries[r], trace[r], response[r]>>

\* C20: with two requests of a service interleaved in any order, whatever
\* changes for one request (its record, pool, top match, shortlist, history
\* or response) changes by a step of that request itself, exactly as when it
\* runs alone: no step of the other request reaches into it.
C20_RequestsRunAsAlone ==
    /\ [][ServiceStep(1)]_<<OfRequest(1)>>
    /\ [][ServiceStep(2)]_<<OfRequest(2)>>

\* both requests collected candidates while the other was in progress, and
\* both have been answered with success
C20_Witness ==
    /\ \A r \in Requests : pc[r] = "done" /\ response[r].status = 200
    /\ response[1].customer_id = FACE_ID
    /\ response[2].customer_id = "u2"
    /\ response[1].top_ad # response[2].top_ad

\* the node sequences of the two paths of the graph
FoundPath == <<"agent_1", "agent_2", "agent_3">>
NotFoundPath == <<"agent_1", "error_handler">>

IsVectorQuery(q) == q.vector_idx >= 0
VectorQueries(r) == SelectSeq(queries[r], IsVectorQuery)

\* C22: the collector issues its queries in list order, one per interest
\* vector: the j-th query is that of vector j-1, and once collection is
\* complete there are exactly as many queries as vectors; every candidate a
\* query adds to the pool carries the 0-based position of that query's
\* vector, so the pool is in ascending vector_idx order and each candidate's
\* vector_idx names a query that returned results.
C22_OneQueryPerVectorInOrder ==
    /\ [](\A r \in Requests :
            /\ \A j \in 1..Len(VectorQueries(r)) : VectorQueries(r)[j].vector_idx = j - 1
            /\ pc[r] = "collect" => Len(VectorQueries(r)) = idx[r]
            /\ (pc[r] = "collect" /\ idx[r] >= NumVectors(r))
               => Len(VectorQueries(r)) = NumVectors(r)
            /\ deduplicated_recommendations[r] # <<>>
               => Len(VectorQueries(r)) = NumVectors(r)
            /\ \A i \in 1..Len(all_recommendations[r]) :
                  /\ all_recommendations[r][i].vector_idx \in 0..(Len(VectorQueries(r)) - 1)
                  /\ VectorQueries(r)[all_recommendations[r][i].vector_idx + 1].outcome
                        = "results"
                  /\ \A k \in 1..(i - 1) :
                        all_recommendations[r][k].vector_idx
                           <= all_recommendations[r][i].vector_idx)
    /\ [][\A r \in Requests :
            QueryReturned(r)
            => /\ Last(queries'[r]).vector_idx = idx[r]
               /\ \A i \in (Len(all_recommendations[r]) + 1)..Len(all_recommendations'[r]) :
                     /\ all_recommendations'[r][i].vector_idx = idx[r]
                     /\ \E k \in 1..Len(top_ads'[r]) :
                           /\ top_ads'[r][k].product = all_recommendations'[r][i].product
                           /\ top_ads'[r][k].similarity = all_recommendations'[r][i].score]_vars

\* collection is complete for two vectors and the pool holds candidates of both
C22_Witness ==
    \E r \in Requests :
        /\ pc[r] = "collect"
        /\ NumVectors(r) = 2
        /\ idx[r] = 2
        /\ Len(queries[r]) = 2
        /\ \E c1, c2 \in Range(all_recommendations[r]) :
              c1.vector_idx = 0 /\ c2.vector_idx = 1

\* the candidates the step of request r adds to the pool
Added(r) ==
    SubSeq(all_recommendations'[r], Len(all_recommendations[r]) + 1,
           Len(all_recommendations'[r]))

\* candidate c was built from match ad of a query result
BuiltFrom(c, ad) ==
    /\ ad.video_link # ""
    /\ c.url = ad.video_link \o AUTOPLAY_SUFFIX
    /\ c.product = ad.product
    /\ c.score = ad.similarity

\* C23: every candidate a query adds is built from a returned match with a
\* non-empty link, and its url is that link followed by "&autoplay=1&mute=1";
\* a match with an empty link yields no candidate, so a query adds no more
\* candidates than it returned matches with a link; every candidate of the
\* pool and of the aggregate's list has a non-empty url made of a link of
\* the index and the suffix.
C23_PlaybackUrl ==
    /\ [](\A r \in Requests :
            \A c \in Range(all_recommendations[r]) \cup Range(agg_recommendations[r]) :
               /\ c.url # ""
               /\ c.url # AUTOPLAY_SUFFIX
               /\ \E d \in advertisements_collection :
                     /\ d.video_link # ""
                     /\ d.product = c.product
                     /\ c.url = d.video_link \o AUTOPLAY_SUFFIX)
    /\ [][\A r \in Requests :
            QueryReturned(r)
            => /\ \A i \in 1..Len(Added(r)) :
                     \E k \in 1..Len(top_ads'[r]) : BuiltFrom(Added(r)[i], top_ads'[r][k])
               /\ Len(Added(r)) <=
                     Cardinality({k \in 1..Len(top_ads'[r]) : top_ads'[r][k].video_link # ""})
               /\ \A k \in 1..Len(top_ads'[r]) :
                     Survives(top_ads'[r], k)
                     => \E i \in 1..Len(Added(r)) : BuiltFrom(Added(r)[i], top_ads'[r][k])]_vars

\* a query returned one match without a link and one with a link, and the
\* pool holds the candidate of the second only
C23_Witness ==
    \E r \in Requests :
        /\ pc[r] = "collect"
        /\ Len(top_ads[r]) = 2
        /\ top_ads[r][1].video_link = ""
        /\ top_ads[r][2].video_link # ""
        /\ Len(all_recommendations[r]) = 1
        /\ BuiltFrom(all_recommendations[r][1], top_ads[r][2])

\* the ranks of a query result whose match is kept
KeptRanks(ads) == {k \in 1..Len(ads) : Survives(ads, k)}

\* the i-th kept rank, by rank
NthKept(ads, i) ==
    CHOOSE k \in KeptRanks(ads) : Cardinality({j \in KeptRanks(ads) : j < k}) = i - 1

\* C24: the candidates one query adds are, in rank order, exactly its matches
\* that have a link and whose product no earlier match with a link had: a
\* match is dropped as a duplicate exactly when an earlier match of its
\* product was kept, and an earlier match of the product that was discarded
\* for its empty link does not block it.
C24_FirstKeptOfProductWins ==
    [][\A r \in Requests :
          QueryReturned(r)
          => /\ Len(Added(r)) = Cardinality(KeptRanks(top_ads'[r]))
             /\ \A i \in 1..Len(Added(r)) :
                   BuiltFrom(Added(r)[i], top_ads'[r][NthKept(top_ads'[r], i)])
             /\ \A k \in 1..Len(top_ads'[r]) :
                   (/\ top_ads'[r][k].video_link # ""
                    /\ \A i \in 1..Len(Added(r)) :
                          ~BuiltFrom(Added(r)[i], top_ads'[r][k]))
                   => \E j \in 1..(k - 1) :
                         /\ top_ads'[r][j].product = top_ads'[r][k].product
                         /\ \E i \in 1..Len(Added(r)) :
                               BuiltFrom(Added(r)[i], top_ads'[r][j])]_vars

\* a query returned two matches of one product, the first without a link:
\* the pool holds the second
C24_Witness ==
    \E r \in Requests :
        /\ pc[r] = "collect"
        /\ Len(top_ads[r]) = 2
        /\ top_ads[r][1].product = top_ads[r][2].product
        /\ top_ads[r][1].video_link = ""
        /\ top_ads[r][2].video_link # ""
        /\ all_recommendations[r] # <<>>
        /\ BuiltFrom(Last(all_recommendations[r]), top_ads[r][2])

\* the positions of a deduplicated list that the shortlist took
Taken(deduplicated, shortlist) ==
    {i \in 1..Len(deduplicated) :
        \E j \in 1..Len(shortlist) : shortlist[j] = Recommendation(deduplicated[i])}

\* the position of a shortlist entry in the deduplicated list
PositionOf(deduplicated, entry) ==
    CHOOSE i \in 1..Len(deduplicated) : Recommendation(deduplicated[i]) = entry

\* C25: once the selector has run on a non-empty pool, the shortlist starts
\* with the top match (url, product and score of the head of the
\* deduplicated list, which the record carries too); the deduplicated list
\* is in descending score order and the shortlist is a subsequence of it, so
\* the shortlist's scores do not increase; and a candidate of the
\* deduplicated list is missing from the shortlist only when an earlier
\* candidate that was taken has its url or when 5 earlier candidates were
\* taken.
C25_ShortlistFromSortedList ==
    \A r \in Requests :
        deduplicated_recommendations[r] # <<>>
        => LET deduplicated == deduplicated_recommendations[r]
               shortlist == top_recommendations[r]
           IN /\ shortlist # <<>>
              /\ shortlist[1] = Recommendation(Head(deduplicated))
              /\ variant \in Services
                 => /\ state[r].ad_url = shortlist[1].url
                    /\ state[r].product = shortlist[1].product
                    /\ state[r].similarity_score = shortlist[1].score
              /\ \A i, j \in 1..Len(deduplicated) :
                    i < j => deduplicated[i].score >= deduplicated[j].score
              /\ \A j \in 1..Len(shortlist) :
                    \E i \in 1..Len(deduplicated) :
                       shortlist[j] = Recommendation(deduplicated[i])
              /\ \A j, k \in 1..Len(shortlist) :
                    j < k => /\ PositionOf(deduplicated, shortlist[j])
                                < PositionOf(deduplicated, shortlist[k])
                             /\ shortlist[j].score >= shortlist[k].score
              /\ \A i \in 1..Len(deduplicated) :
                    i \notin Taken(deduplicated, shortlist)
                    => \/ \E k \in Taken(deduplicated, shortlist) :
                             k < i /\ deduplicated[k].url = deduplicated[i].url
                       \/ Cardinality({k \in Taken(deduplicated, shortlist) : k < i})
                             = SHORTLIST_SIZE

\* one candidate was left out for its url before the shortlist was full and
\* another, with a url of its own, because the shortlist was full; the
\* shortlist holds both scores
C25_Witness ==
    \E r \in Requests :
        LET deduplicated == deduplicated_recommendations[r]
            shortlist == top_recommendations[r]
        IN /\ Len(shortlist) = SHORTLIST_SIZE
           /\ shortlist[1].score > shortlist[SHORTLIST_SIZE].score
           /\ \E i \in 1..Len(deduplicated) :
                 /\ i \notin Taken(deduplicated, shortlist)
                 /\ Cardinality({k \in Taken(deduplicated, shortlist) : k < i})
                       < SHORTLIST_SIZE
           /\ \E i \in 1..Len(deduplicated) :
                 /\ i \notin Taken(deduplicated, shortlist)
                 /\ deduplicated[i].url \notin Urls(shortlist)

\* C26: when the threshold validator runs on a record whose similarity_score
\* is below 0.7, v6.4 returns the record with the same similarity_score and
\* the same top_recommendations, v7.1 returns it with similarity_score 0 and
\* an empty top_recommendations, and both leave customer_id, user_interests
\* and the interest vectors as they were.
C26_LowScoreFrame ==
    [][\A r \in Requests :
          (ValidatorStep(r) /\ state[r].similarity_score < SIMILARITY_THRESHOLD)
          => /\ variant = "v64"
                => /\ state'[r].similarity_score = state[r].similarity_score
                   /\ state'[r].top_recommendations = state[r].top_recommendations
             /\ variant = "v71"
                => /\ state'[r].similarity_score = 0
                   /\ state'[r].top_recommendations = <<>>
             /\ state'[r].customer_id = state[r].customer_id
             /\ state'[r].user_interests = state[r].user_interests
             /\ state'[r].user_vectors = state[r].user_vectors
             /\ state'[r].user_vectors_with_interests
                   = state[r].user_vectors_with_interests
             /\ state'[r].user_vector_agg = state[r].user_vector_agg]_vars

\* the validator of v6.4 has turned down a match of score 0.65 and the
\* record still carries that score and its shortlist
C26_Witness ==
    \E r \in Requests :
        /\ variant = "v64"
        /\ Validated(r)
        /\ ~state[r].play_ad
        /\ state[r].similarity_score = 65
        /\ state[r].top_recommendations # <<>>
        /\ state[r].top_recommendations[1].score = 65
        /\ state[r].customer_id = FACE_ID
        /\ state[r].user_vectors_with_interests # <<>>

\* C27: on every pool the collector hands to the selector, the selector of
\* v6.4 (stable sort by descending score, deduplicate, sort again) and the
\* selector of v7.0 and v7.1 (sort by descending score then ascending
\* vector_idx, deduplicate) yield the same deduplicated list, the same top
\* match and the same shortlist.
C27_SelectorsAgree ==
    \A r \in Requests :
        (pc[r] = "collect" /\ all_recommendations[r] # <<>>)
        => LET cli == Deduplicate(all_recommendations[r], "v64")
               service == Deduplicate(all_recommendations[r], "v70")
           IN /\ cli = service
              /\ service = Deduplicate(all_recommendations[r], "v71")
              /\ Head(cli) = Head(service)
              /\ TopRecommendations(cli) = TopRecommendations(service)
              /\ Selected(state[r], cli) = Selected(state[r], service)

\* the pool is not in score order, and candidates of two products tie for
\* the top score, one from each vector
C27_Witness ==
    \E r \in Requests :
        /\ pc[r] = "collect"
        /\ idx[r] = NumVectors(r)
        /\ \E i, j \in 1..Len(all_recommendations[r]) :
              i < j /\ all_recommendations[r][i].score < all_recommendations[r][j].score
        /\ \E c1, c2 \in Range(all_recommendations[r]) :
              /\ c1.vector_idx = 0 /\ c2.vector_idx = 1
              /\ c1.product # c2.product
              /\ c1.score = c2.score
              /\ \A c \in Range(all_recommendations[r]) : c.score <= c1.score

\* request r was answered with HTTP 200
Succeeded(r) == response[r].kind = "http" /\ response[r].status = 200

\* C28: every 200 response of v7.1 carries a top_ad of score at least 0.7,
\* and every 200 response of v7.1 and of v7.0 carries a non-empty
\* top_recommendations whose first element has the url, product and score of
\* top_ad.
C28_SuccessCarriesTopMatch ==
    \A r \in Requests :
        (variant \in Services /\ Succeeded(r))
        => /\ variant = "v71" => response[r].top_ad.score >= SIMILARITY_THRESHOLD
           /\ response[r].top_recommendations # <<>>
           /\ response[r].top_recommendations[1].url = response[r].top_ad.url
           /\ response[r].top_recommendations[1].product = response[r].top_ad.product
           /\ response[r].top_recommendations[1].score = response[r].top_ad.score

\* v7.1 has answered 200 with a shortlist of two advertisements
C28_Witness ==
    \E r \in Requests :
        /\ variant = "v71"
        /\ Succeeded(r)
        /\ Len(response[r].top_recommendations) = 2
        /\ response[r].top_ad.url \notin {"", DEFAULT_AD_URL}

\* the step of request r is the aggregation approach of v6.4 after a
\* selection whose pool was empty, and the query of the aggregated vector
\* returned a match with a link
AggregatesAfterEmptyPool(r) ==
    /\ variant = "v64"
    /\ pc[r] = "aggregate"
    /\ pc'[r] = "validate"
    /\ all_recommendations[r] = <<>>
    /\ agg_recommendations'[r] # <<>>

\* C29: when the selection pool of v6.4 is empty and the query of the
\* aggregated vector returns a match with a link, the record agent_2_node
\* returns carries that match in ad_url_agg, product_agg and
\* similarity_score_agg and a non-empty top_recommendations_agg, with the
\* selection fields at their empty defaults.
C29_AggregationSurvivesEmptyPool ==
    [][\A r \in Requests :
          AggregatesAfterEmptyPool(r)
          => /\ state'[r].ad_url_agg = Head(agg_recommendations'[r]).url
             /\ state'[r].product_agg = Head(agg_recommendations'[r]).product
             /\ state'[r].similarity_score_agg = Head(agg_recommendations'[r]).score
             /\ state'[r].top_recommendations_agg # <<>>
             /\ state'[r].ad_url = ""
             /\ state'[r].product = ""
             /\ state'[r].similarity_score = 0
             /\ state'[r].top_recommendations = <<>>]_vars

====
